---- MODULE Spec2Model ----
(***************************************************************************)
(* A model of the descriptor-tree helpers of examples/c/support.c          *)
(* (ffi_type_destroy, ffi_type_destroy_array, ffi_type_clone,              *)
(* ffi_type_clone_array) over an explicit heap, and of the closure test    *)
(* program src/c/test.c (callback, main).                                  *)
(*                                                                         *)
(* Pointers are integers: NULL, the addresses of the statically allocated  *)
(* atomic descriptors, and the addresses of heap blocks.  A heap block is  *)
(* either an ffi_type node or an ffi_type* array; a freed block keeps its  *)
(* last contents (what a stale read may observe).  Every access the C      *)
(* standard leaves undefined (reading or freeing a block that is not       *)
(* live, reading past an array, reading an unwritten slot) is recorded and *)
(* resolved by a nondeterministic outcome chosen by the calling action.    *)
(***************************************************************************)
EXTENDS Integers, Sequences, FiniteSets, TLC

\* ------------------------------------------------------------------ bounds
HeapSize == 10
MaxElems == 2
MaxCalls == 2
MaxBinds == 2

\* --------------------------------------------------------------- constants
NULL == 0
ffi_type_sint == 1
FFI_TYPE_STRUCT == "FFI_TYPE_STRUCT"
FFI_TYPE_COMPLEX == "FFI_TYPE_COMPLEX"
FFI_TYPE_SINT32 == "FFI_TYPE_SINT32"
FFI_TYPE_NONE == "none"
\* the value of an array slot that was allocated and never written
UNINIT == -1
INT_MAX == 2147483647
INT_MIN == -INT_MAX - 1

Atomics == {ffi_type_sint}
Heap == (Cardinality(Atomics) + 1) .. (Cardinality(Atomics) + HeapSize)
Addrs == Atomics \cup Heap
AggregateTags == {FFI_TYPE_STRUCT, FFI_TYPE_COMPLEX}

\* the scalar attributes (size, alignment, type) a caller gives an aggregate
ScalarAttrs ==
    { [size |-> 0, alignment |-> 0, type |-> FFI_TYPE_STRUCT],
      [size |-> 16, alignment |-> 8, type |-> FFI_TYPE_COMPLEX] }

\* what an undefined access may do: read back what the block last held,
\* read something else, or stop the process
UBOutcomes == {"stale", "clobbered", "abort"}

VARIABLES mem, last, clones, freed, phase, crashed, share,
          cif, closure, env, out, pc, calls, binds

heapVars == <<mem, last, clones, freed, phase, crashed, share>>
closureVars == <<cif, closure, env, out, pc, calls, binds>>
vars == <<mem, last, clones, freed, phase, crashed, share,
          cif, closure, env, out, pc, calls, binds>>

\* ------------------------------------------------------------ heap blocks
NodeBlock(lv, sz, al, ty, el) ==
    [live |-> lv, kind |-> "node", size |-> sz, alignment |-> al,
     type |-> ty, elements |-> el, slots |-> <<>>]
ArrayBlock(lv, sl) ==
    [live |-> lv, kind |-> "array", size |-> 0, alignment |-> 0,
     type |-> FFI_TYPE_NONE, elements |-> NULL, slots |-> sl]
UnusedBlock ==
    [live |-> FALSE, kind |-> "unused", size |-> 0, alignment |-> 0,
     type |-> FFI_TYPE_NONE, elements |-> NULL, slots |-> <<>>]

StaticMem ==
    [a \in Addrs |->
        IF a = ffi_type_sint THEN NodeBlock(TRUE, 4, 4, FFI_TYPE_SINT32, NULL)
        ELSE UnusedBlock]

\* a pointer a well-defined program may dereference as an ffi_type
IsNode(m, p) == p \in Addrs /\ m[p].live /\ m[p].kind = "node"
\* a pointer a well-defined program may index as an ffi_type* array
IsArray(m, p) == p \in Heap /\ m[p].live /\ m[p].kind = "array"
IsAggregate(m, p) == IsNode(m, p) /\ m[p].type \in AggregateTags

\* ------------------------------------------------- the running operation
\* st: the memory and the log of one call of a support.c function
Start(m) ==
    [mem |-> m, allocs |-> <<>>, frees |-> <<>>, reads |-> {},
     ub |-> {}, halt |-> FALSE]

Halt(st) == [st EXCEPT !.halt = TRUE]
Flag(st, what, p, outcome) ==
    LET s1 == [st EXCEPT !.ub = @ \cup {<<what, p>>}]
    IN  IF outcome = "abort" THEN Halt(s1) ELSE s1

\* what a read through an ffi_type* yields when it does not yield a live node
Garbage == NodeBlock(FALSE, 0, 0, FFI_TYPE_NONE, NULL)

\* type->type, type->elements (support.c:15, 33, 38)
ReadNode(st, p, outcome) ==
    IF IsNode(st.mem, p) THEN [st |-> st, val |-> st.mem[p]]
    ELSE IF p \notin Addrs THEN [st |-> Halt(Flag(st, "wild", p, outcome)), val |-> Garbage]
    ELSE [st |-> Flag(st, "read", p, outcome),
          val |-> IF outcome = "stale" /\ st.mem[p].kind = "node"
                  THEN st.mem[p] ELSE Garbage]

\* types[i], *curr (support.c:23, 48, 55); i counts from 0
ReadSlot(st, p, i, outcome) ==
    LET s1 == [st EXCEPT !.reads = @ \cup {<<p, i>>}]
    IN  IF p \notin Heap
        THEN [st |-> Halt(Flag(s1, "wild", p, outcome)), val |-> NULL]
        ELSE LET b == s1.mem[p]
                 defined == b.live /\ b.kind = "array"
                 visible == defined \/ (outcome = "stale" /\ b.kind = "array")
             IN  IF ~visible
                 THEN [st |-> Flag(s1, "read", p, outcome), val |-> NULL]
                 ELSE IF i + 1 > Len(b.slots)
                 THEN [st |-> Flag(s1, "bounds", p, outcome), val |-> NULL]
                 ELSE IF b.slots[i + 1] = UNINIT
                 THEN [st |-> Flag(s1, "uninit", p, outcome), val |-> NULL]
                 ELSE [st |-> IF defined THEN s1 ELSE Flag(s1, "read", p, outcome),
                       val |-> b.slots[i + 1]]

\* free(p) (support.c:17, 26)
Free(st, p, outcome) ==
    IF st.halt THEN st
    ELSE LET s1 == [st EXCEPT !.frees = Append(@, p)]
         IN  IF p \in Heap /\ s1.mem[p].live
             THEN [s1 EXCEPT !.mem[p].live = FALSE]
             ELSE Flag(s1, "free", p, outcome)

FreeAddrs(m) == {a \in Heap : ~m[a].live}
Lowest(S) == CHOOSE a \in S : \A b \in S : a <= b

\* malloc(..) followed by assert(copy != NULL) (support.c:34-35, 51-52): an
\* exhausted heap makes malloc return NULL and the assertion stop the
\* process.  The block handed out is the lowest one not in use; the program
\* never compares or orders addresses, so any other placement behaves alike
Malloc(st, blk) ==
    IF st.halt THEN [st |-> st, val |-> NULL]
    ELSE IF FreeAddrs(st.mem) = {} THEN [st |-> Halt(st), val |-> NULL]
    ELSE LET a == Lowest(FreeAddrs(st.mem))
         IN  [st |-> [st EXCEPT !.mem[a] = blk, !.allocs = Append(@, a)],
              val |-> a]

\* ------------------------------------------------------------- support.c
RECURSIVE ffi_type_destroy(_, _, _), ffi_type_destroy_array(_, _, _),
          DestroyFrom(_, _, _, _)

\* ffi_type_destroy without the test of the type tag: whatever is not NULL is
\* freed
DestroyAnyTag(st, type, outcome) ==
    IF st.halt \/ type = NULL THEN st
    ELSE LET r == ReadNode(st, type, outcome)
         IN  IF r.st.halt THEN r.st
             ELSE IF r.val.type = FFI_TYPE_STRUCT \/ r.val.type = FFI_TYPE_COMPLEX
             THEN Free(ffi_type_destroy_array(r.st, r.val.elements, outcome),
                       type, outcome)
             ELSE Free(r.st, type, outcome)

\* ffi_type_destroy without free(type): the node is left allocated
DestroyLeakNode(st, type, outcome) ==
    IF st.halt \/ type = NULL THEN st
    ELSE LET r == ReadNode(st, type, outcome)
         IN  IF r.st.halt THEN r.st
             ELSE IF r.val.type = FFI_TYPE_STRUCT \/ r.val.type = FFI_TYPE_COMPLEX
             THEN ffi_type_destroy_array(r.st, r.val.elements, outcome)
             ELSE r.st

\* support.c:11-19
ffi_type_destroy(st, type, outcome) ==
    IF st.halt \/ type = NULL THEN st
    ELSE LET r == ReadNode(st, type, outcome)
         IN  IF r.st.halt THEN r.st
             ELSE IF r.val.type = FFI_TYPE_STRUCT \/ r.val.type = FFI_TYPE_COMPLEX
             THEN Free(ffi_type_destroy_array(r.st, r.val.elements, outcome),
                       type, outcome)
             ELSE r.st

\* the loop of ffi_type_destroy_array left out: no element is destroyed
DestroyNoElement(st, types, i, outcome) == st

\* the for loop of support.c:23-24, from slot i on
DestroyFrom(st, types, i, outcome) ==
    IF st.halt THEN st
    ELSE LET r == ReadSlot(st, types, i, outcome)
         IN  IF r.st.halt \/ r.val = NULL THEN r.st
             ELSE DestroyFrom(ffi_type_destroy(r.st, r.val, outcome),
                              types, i + 1, outcome)

\* support.c:21-27
ffi_type_destroy_array(st, types, outcome) ==
    Free(DestroyFrom(st, types, 0, outcome), types, outcome)

RECURSIVE ffi_type_clone(_, _, _), ffi_type_clone_array(_, _, _),
          CountFrom(_, _, _, _), CloneFrom(_, _, _, _, _, _)

\* a field-by-field copy that forgets the alignment
MemcpyNoAlignment(st, copy, src) ==
    [st EXCEPT !.mem[copy] = NodeBlock(TRUE, src.size, 0, src.type, src.elements)]

\* memcpy(copy, type, sizeof(ffi_type)) (support.c:37): src is *type as read
Memcpy(st, copy, src) ==
    [st EXCEPT !.mem[copy] =
        NodeBlock(TRUE, src.size, src.alignment, src.type, src.elements)]

\* a clone that hands back its argument: the aggregate itself, not a copy
CloneReturnsSource(st, type, outcome) == [st |-> st, val |-> type]

\* support.c:29-43
ffi_type_clone(st, type, outcome) ==
    IF st.halt \/ type = NULL THEN [st |-> st, val |-> NULL]
    ELSE LET r == ReadNode(st, type, outcome)
         IN  IF r.st.halt THEN [st |-> r.st, val |-> NULL]
             ELSE IF r.val.type = FFI_TYPE_STRUCT \/ r.val.type = FFI_TYPE_COMPLEX
             THEN LET copy == Malloc(r.st, NodeBlock(TRUE, 0, 0, FFI_TYPE_NONE, NULL))
                  IN  IF copy.st.halt THEN [st |-> copy.st, val |-> NULL]
                      ELSE LET s1 == Memcpy(copy.st, copy.val, r.val)
                               arr == ffi_type_clone_array(s1, r.val.elements, outcome)
                           IN  IF arr.st.halt THEN [st |-> arr.st, val |-> NULL]
                               ELSE [st |-> [arr.st EXCEPT
                                               !.mem[copy.val].elements = arr.val],
                                     val |-> copy.val]
             ELSE [st |-> r.st, val |-> type]

\* the counting loop with size starting at 0: the sentinel is not counted
RECURSIVE CountNoSentinel(_, _, _, _)
CountNoSentinel(st, types, i, outcome) ==
    IF st.halt THEN [st |-> st, val |-> i]
    ELSE LET r == ReadSlot(st, types, i, outcome)
         IN  IF r.st.halt \/ r.val = NULL THEN [st |-> r.st, val |-> i]
             ELSE CountNoSentinel(r.st, types, i + 1, outcome)

\* the counting loop of support.c:47-49, from slot i on: val is `size`
CountFrom(st, types, i, outcome) ==
    IF st.halt THEN [st |-> st, val |-> i + 1]
    ELSE LET r == ReadSlot(st, types, i, outcome)
         IN  IF r.st.halt \/ r.val = NULL THEN [st |-> r.st, val |-> i + 1]
             ELSE CountFrom(r.st, types, i + 1, outcome)

\* the copying loop with the test i <= size: one slot too many is read
RECURSIVE CloneOneTooMany(_, _, _, _, _, _)
CloneOneTooMany(st, types, copy, i, size, outcome) ==
    IF st.halt \/ ~(i <= size) THEN st
    ELSE LET r == ReadSlot(st, types, i, outcome)
             c == ffi_type_clone(r.st, r.val, outcome)
         IN  IF c.st.halt THEN c.st
             ELSE CloneOneTooMany(
                      IF i < size
                      THEN [c.st EXCEPT !.mem[copy].slots[i + 1] = c.val]
                      ELSE c.st,
                      types, copy, i + 1, size, outcome)

\* the copying loop of support.c:54-55, from slot i on
CloneFrom(st, types, copy, i, size, outcome) ==
    IF st.halt \/ ~(i < size) THEN st
    ELSE LET r == ReadSlot(st, types, i, outcome)
             c == ffi_type_clone(r.st, r.val, outcome)
         IN  IF c.st.halt THEN c.st
             ELSE CloneFrom([c.st EXCEPT !.mem[copy].slots[i + 1] = c.val],
                            types, copy, i + 1, size, outcome)

\* a shallow copy: the source array itself is returned
CloneArrayShared(st, types, outcome) == [st |-> st, val |-> types]

\* support.c:45-58
ffi_type_clone_array(st, types, outcome) ==
    LET n == CountFrom(st, types, 0, outcome)
        copy == Malloc(n.st, ArrayBlock(TRUE, [k \in 1 .. n.val |-> UNINIT]))
    IN  IF copy.st.halt THEN [st |-> copy.st, val |-> NULL]
        ELSE [st |-> CloneFrom(copy.st, types, copy.val, 0, n.val, outcome),
              val |-> copy.val]

\* ------------------------------------------------------ shapes in memory
RECURSIVE WellFormed(_, _), NodeBlocks(_, _), SlotBlocks(_, _, _)

\* every aggregate reachable from p has a non-null, sentinel-terminated array
\* of valid descriptor references
WellFormed(m, p) ==
    /\ IsNode(m, p)
    /\ (p \in Heap) = (m[p].type \in AggregateTags)
    /\ p \in Heap =>
         LET a == m[p].elements
         IN  /\ IsArray(m, a)
             /\ Len(m[a].slots) >= 1
             /\ m[a].slots[Len(m[a].slots)] = NULL
             /\ \A k \in 1 .. Len(m[a].slots) - 1 : WellFormed(m, m[a].slots[k])

\* the heap blocks reached from p, in the order destroy visits them, with
\* repetitions when a block is reached twice
NodeBlocks(m, p) ==
    IF p \in Heap /\ IsAggregate(m, p)
    THEN <<p>> \o (IF IsArray(m, m[p].elements)
                   THEN <<m[p].elements>> \o SlotBlocks(m, m[p].elements, 1)
                   ELSE <<>>)
    ELSE <<>>
SlotBlocks(m, a, k) ==
    IF k > Len(m[a].slots) THEN <<>>
    ELSE NodeBlocks(m, m[a].slots[k]) \o SlotBlocks(m, a, k + 1)

Range(s) == {s[k] : k \in 1 .. Len(s)}
NoDup(s) == \A i, j \in 1 .. Len(s) : s[i] = s[j] => i = j
Blocks(m, p) == Range(NodeBlocks(m, p))

\* a well-formed aggregate tree: no node and no array is reached twice
Tree(m, p) == p \in Heap /\ WellFormed(m, p) /\ NoDup(NodeBlocks(m, p))

\* the number of elements before the sentinel
Length(m, a) == Len(m[a].slots) - 1
Children(m, p) == SubSeq(m[m[p].elements].slots, 1, Length(m, m[p].elements))

\* ------------------------------------------------------------ the program
\* what the last call was given, what it returned and did, and the memory
\* (pre) and the copies on record (pairs) it started from
Log(name, arg, ret, st, pre, pairs) ==
    [op |-> name, arg |-> arg, ret |-> ret, allocs |-> st.allocs,
     frees |-> st.frees, reads |-> st.reads, ub |-> st.ub, pre |-> pre,
     pairs |-> pairs]

\* how often free() was called on each block since malloc last returned it
Count(seq, a) == Cardinality({k \in 1 .. Len(seq) : seq[k] = a})
Freed(old, st) ==
    [a \in Heap |-> (IF a \in Range(st.allocs) THEN 0 ELSE old[a]) + Count(st.frees, a)]

LiveSet(m) == {a \in Heap : m[a].live}

\* a copy on record: its source, its root, the blocks the call allocated and
\* the blocks that were live before the call
Pair(src, st, copy, pre) == <<src, copy, Range(st.allocs), LiveSet(pre)>>

\* the copies on record whose source and root are both still allocated
Surviving(pairs, m) ==
    {pr \in pairs : IsAggregate(m, pr[1]) /\ IsAggregate(m, pr[2])}

\* ----------------------------------------------------------- closures
\* src/c/test.c: main prepares a CIF (int) -> int, allocates a closure, binds
\* it to callback with &env and calls the entry point fn.  The library calls
\* (ffi_prep_cif, ffi_closure_alloc, ffi_prep_closure_loc, the trampoline
\* behind fn) follow the closure state machine Unbound -> Bound.
FFI_OK == "FFI_OK"
DOUBLE_BIND == "double-bind"
FFI_DEFAULT_ABI == "FFI_DEFAULT_ABI"
\* the int variables a context pointer may refer to: env of main, and the
\* context of a later bind
CtxVars == {"env", "other"}
Contexts == {5, -1}
IntArgs == {6, 7, INT_MAX, INT_MIN}
\* what a signed overflow may do: wrap around, or trap
OverflowOutcomes == {"wrap", "trap"}

\* a + b is representable in int
Fits(a, b) == IF a >= 0 THEN b <= INT_MAX - a ELSE b >= INT_MIN - a
\* a + b reduced modulo 2^32 into INT_MIN .. INT_MAX, for a + b out of range
Wrapped(a, b) ==
    IF a >= 0 THEN INT_MIN + (b - (INT_MAX - a) - 1)
    ELSE INT_MAX - ((INT_MIN - a) - b - 1)
\* the int addition of test.c:7
IntAdd(a, b, outcome) ==
    IF Fits(a, b) THEN [val |-> a + b, trap |-> FALSE]
    ELSE IF outcome = "wrap" THEN [val |-> Wrapped(a, b), trap |-> FALSE]
    ELSE [val |-> 0, trap |-> TRUE]

\* a callback that ignores its context
CallbackDropsContext(e, args, userdata, outcome) ==
    [result |-> args[1], env |-> e, trap |-> FALSE]

\* test.c:5-8: *(int*)result = *(int*)userdata + **(int**)args; e is the
\* memory holding the context variables, which the callback only reads
callback(e, args, userdata, outcome) ==
    LET sum == IntAdd(e[userdata], args[1], outcome)
    IN  [result |-> sum.val, env |-> e, trap |-> sum.trap]

Unprepared == [prepared |-> FALSE, abi |-> "none", nargs |-> 0,
               rtype |-> NULL, arg_types |-> <<>>]
Unallocated == [state |-> "unallocated", cif |-> Unprepared, fun |-> "none",
                user_data |-> "none"]

\* ffi_prep_cif(&cif, abi, nargs, rtype, atypes) as main calls it
ffi_prep_cif(abi, nargs, rtype, atypes) ==
    [status |-> FFI_OK,
     cif |-> [prepared |-> TRUE, abi |-> abi, nargs |-> nargs, rtype |-> rtype,
              arg_types |-> atypes]]

\* ffi_closure_alloc: an unbound closure
ffi_closure_alloc == [Unallocated EXCEPT !.state = "unbound"]

\* a bind that overwrites the binding of a bound closure
PrepClosureRebinds(cl, c, fun, user_data) ==
    [status |-> FFI_OK,
     closure |-> [state |-> "bound", cif |-> c, fun |-> fun, user_data |-> user_data]]

\* ffi_prep_closure_loc(closure, &cif, fun, user_data, fn): binds an unbound
\* closure; a bound one is left as it is and the call reports a double bind
ffi_prep_closure_loc(cl, c, fun, user_data) ==
    IF cl.state = "unbound"
    THEN [status |-> FFI_OK,
          closure |-> [state |-> "bound", cif |-> c, fun |-> fun,
                       user_data |-> user_data]]
    ELSE [status |-> DOUBLE_BIND, closure |-> cl]

\* the entry point fn called with the values xs: the trampoline hands the
\* bound callback one pointer per argument of the CIF, in order, and the
\* bound context
fn(cl, e, xs, outcome) ==
    LET args == [i \in 1 .. cl.cif.nargs |-> xs[i]]
        r == callback(e, args, cl.user_data, outcome)
    IN  [ret |-> r.result, env |-> r.env, trap |-> r.trap, args |-> args,
         userdata |-> cl.user_data, fun |-> cl.fun]

\* test.c:18-20
PrepCif ==
    /\ pc = "prep_cif"
    /\ LET r == ffi_prep_cif(FFI_DEFAULT_ABI, 1, ffi_type_sint, <<ffi_type_sint>>)
       IN  /\ cif' = r.cif
           /\ pc' = IF r.status = FFI_OK THEN "closure_alloc" ELSE "aborted"
    /\ UNCHANGED <<closure, env, out, calls, binds, heapVars>>

\* test.c:21
ClosureAlloc ==
    /\ pc = "closure_alloc"
    /\ closure' = ffi_closure_alloc
    /\ pc' = "prep_closure"
    /\ UNCHANGED <<cif, env, out, calls, binds, heapVars>>

\* test.c:22-23 with user_data = &env; a host may try to bind the closure
\* again, with any context
PrepClosureLoc(ctx) ==
    /\ pc \in {"prep_closure", "call"}
    /\ pc = "prep_closure" => ctx = "env"
    /\ Len(binds) < MaxBinds
    /\ LET r == ffi_prep_closure_loc(closure, cif, "callback", ctx)
       IN  /\ closure' = r.closure
           /\ binds' = Append(binds, [user_data |-> ctx, status |-> r.status,
                                      before |-> closure, after |-> r.closure,
                                      ncalls |-> Len(calls)])
           /\ pc' = IF pc = "call" THEN "call"
                    ELSE IF r.status = FFI_OK THEN "call" ELSE "aborted"
    /\ UNCHANGED <<cif, env, out, calls, heapVars>>

\* test.c:25-26: printf("%d\n", fn(x))
Call(x, outcome) ==
    /\ pc = "call"
    /\ Len(calls) < MaxCalls
    /\ outcome \in (IF Fits(env[closure.user_data], x) THEN {"wrap"}
                   ELSE OverflowOutcomes)
    /\ LET r == fn(closure, env, <<x>>, outcome)
       IN  /\ env' = r.env
           /\ out' = IF r.trap THEN out ELSE Append(out, r.ret)
           /\ pc' = IF r.trap THEN "aborted" ELSE pc
           /\ calls' = Append(calls, [arg |-> x, ret |-> r.ret, trap |-> r.trap,
                                      args |-> r.args, userdata |-> r.userdata,
                                      fun |-> r.fun, nbinds |-> Len(binds),
                                      env |-> env, closure |-> closure,
                                      envAfter |-> r.env])
    /\ UNCHANGED <<cif, closure, binds, heapVars>>

ClosureIdle ==
    /\ cif = Unprepared
    /\ closure = Unallocated
    /\ out = <<>>
    /\ calls = <<>>
    /\ binds = <<>>

\* the closure program does not run
ClosureInit ==
    /\ ClosureIdle
    /\ env = [v \in CtxVars |-> 5]
    /\ pc = "idle"

NoShare == [s |-> NULL, trees |-> <<>>, cloned |-> FALSE, released |-> {},
            how |-> "none"]

HeapInit ==
    /\ mem = StaticMem
    /\ last = Log("init", NULL, NULL, Start(StaticMem), StaticMem, {})
    /\ clones = {}
    /\ freed = [a \in Heap |-> 0]
    /\ phase = "build"
    /\ crashed = FALSE
    /\ share = NoShare

Arrays(m) == {a \in Heap : IsArray(m, a)}
Nodes(m) == {p \in Heap : IsNode(m, p)}
\* the descriptors and arrays the caller owns directly: nodes no live array
\* refers to, arrays no live node refers to
Roots(m) == {p \in Nodes(m) : \A a \in Arrays(m) : p \notin Range(m[a].slots)}
Standalone(m) == {a \in Arrays(m) : \A p \in Nodes(m) : m[p].elements # a}
\* what the caller may put into a new aggregate: atomic singletons, and
\* descriptors it owns, each at most once (they become the aggregate's)
KidSeqs(m) ==
    {kids \in UNION {[1 .. n -> Atomics \cup Roots(m)] : n \in 0 .. MaxElems} :
        \A i, j \in 1 .. Len(kids) :
            (kids[i] = kids[j] /\ kids[i] \in Heap) => i = j}

\* the caller allocates an aggregate descriptor: a node with scalar attributes
\* attrs and a fresh sentinel-terminated array holding kids
Construct(st0, attrs, kids) ==
    LET n == Malloc(st0, NodeBlock(TRUE, attrs.size, attrs.alignment, attrs.type, NULL))
        a == Malloc(n.st, ArrayBlock(TRUE, kids \o <<NULL>>))
    IN  [st |-> IF a.st.halt THEN a.st
                ELSE [a.st EXCEPT !.mem[n.val].elements = a.val],
         val |-> n.val]

\* It builds only while the heap keeps room for a copy of everything built
Build(attrs, kids) ==
    /\ ~crashed
    /\ phase = "build"
    /\ Cardinality(FreeAddrs(mem)) >= 2 * (Cardinality(Nodes(mem)) + 1) + 2
    /\ LET t == Construct(Start(mem), attrs, kids)
       IN  /\ mem' = t.st.mem
           /\ last' = Log("build", NULL, t.val, t.st, mem, clones)
           /\ clones' = Surviving(clones, t.st.mem)
           /\ freed' = Freed(freed, t.st)
    /\ UNCHANGED <<phase, crashed, share, closureVars>>

\* the caller's use of the descriptors it built: it may take a copy, then
\* it releases what it owns, one descriptor or array per call.  A call that
\* touches no heap block (NULL, an atomic singleton) may be made at any time
After(ph, name, touched) ==
    IF ~touched THEN ph
    ELSE IF name \in {"clone", "clone_array"} THEN "cloned"
    ELSE IF ph = "released" THEN "done"
    ELSE "released"
Touched(st) == st.allocs # <<>> \/ st.frees # <<>> \/ st.reads # {}

\* an undefined access is resolved by an outcome; a call without one has a
\* single result
Outcomes(ub) == IF ub = {} THEN {"abort"} ELSE UBOutcomes

Clone(p, outcome) ==
    /\ ~crashed
    /\ phase = "build" \/ (phase # "done" /\ p \notin Heap)
    /\ outcome \in Outcomes(ffi_type_clone(Start(mem), p, "abort").st.ub)
    /\ LET r == ffi_type_clone(Start(mem), p, outcome)
       IN  /\ mem' = r.st.mem
           /\ last' = Log("clone", p, r.val, r.st, mem, clones)
           /\ clones' = Surviving(clones \cup {Pair(p, r.st, r.val, mem)}, r.st.mem)
           /\ freed' = Freed(freed, r.st)
           /\ crashed' = r.st.halt
           /\ phase' = After(phase, "clone", Touched(r.st))
    /\ UNCHANGED <<share, closureVars>>

Destroy(p, outcome) ==
    /\ ~crashed
    /\ phase \in {"build", "cloned", "released"}
    /\ outcome \in Outcomes(ffi_type_destroy(Start(mem), p, "abort").ub)
    /\ LET st == ffi_type_destroy(Start(mem), p, outcome)
       IN  /\ mem' = st.mem
           /\ last' = Log("destroy", p, NULL, st, mem, clones)
           /\ clones' = Surviving(clones, st.mem)
           /\ freed' = Freed(freed, st)
           /\ crashed' = st.halt
           /\ phase' = After(phase, "destroy", Touched(st))
    /\ UNCHANGED <<share, closureVars>>

CloneArray(a, outcome) ==
    /\ ~crashed
    /\ phase = "build"
    /\ outcome \in Outcomes(ffi_type_clone_array(Start(mem), a, "abort").st.ub)
    /\ LET r == ffi_type_clone_array(Start(mem), a, outcome)
       IN  /\ mem' = r.st.mem
           /\ last' = Log("clone_array", a, r.val, r.st, mem, clones)
           /\ clones' = Surviving(clones, r.st.mem)
           /\ freed' = Freed(freed, r.st)
           /\ crashed' = r.st.halt
           /\ phase' = After(phase, "clone_array", TRUE)
    /\ UNCHANGED <<share, closureVars>>

DestroyArray(a, outcome) ==
    /\ ~crashed
    /\ phase \in {"cloned", "released"}
    /\ outcome \in Outcomes(ffi_type_destroy_array(Start(mem), a, "abort").ub)
    /\ LET st == ffi_type_destroy_array(Start(mem), a, outcome)
       IN  /\ mem' = st.mem
           /\ last' = Log("destroy_array", a, NULL, st, mem, clones)
           /\ clones' = Surviving(clones, st.mem)
           /\ freed' = Freed(freed, st)
           /\ crashed' = st.halt
           /\ phase' = After(phase, "destroy_array", TRUE)
    /\ UNCHANGED <<share, closureVars>>

Init == HeapInit /\ ClosureInit

Next ==
    \/ \E attrs \in ScalarAttrs, kids \in KidSeqs(mem) : Build(attrs, kids)
    \/ \E p \in {NULL} \cup Atomics \cup Nodes(mem), outcome \in UBOutcomes :
          Clone(p, outcome)
    \/ \E p \in {NULL} \cup Atomics \cup Roots(mem), outcome \in UBOutcomes :
          Destroy(p, outcome)
    \/ \E a \in Arrays(mem), outcome \in UBOutcomes : CloneArray(a, outcome)
    \/ \E a \in Standalone(mem), outcome \in UBOutcomes : DestroyArray(a, outcome)

Spec == Init /\ [][Next]_vars

\* ------------------------------------------------- one aggregate, two trees
\* The caller needs the aggregate s in two trees.  It allocates s (Plant),
\* builds the two trees (Adopt), each around its own ffi_type_clone(s) or,
\* when share.cloned is FALSE, both around s itself, and then destroys what
\* it owns in any order (Release)
AtomSeqs == UNION {[1 .. n -> Atomics] : n \in 0 .. MaxElems}

Plant(attrs, kids) ==
    /\ ~crashed
    /\ phase = "plant"
    /\ LET t == Construct(Start(mem), attrs, kids)
       IN  /\ mem' = t.st.mem
           /\ last' = Log("build", NULL, t.val, t.st, mem, clones)
           /\ freed' = Freed(freed, t.st)
           /\ crashed' = t.st.halt
           /\ share' = [share EXCEPT !.s = t.val]
    /\ phase' = "adopt"
    /\ UNCHANGED <<clones, closureVars>>

Adopt(attrs, outcome) ==
    /\ ~crashed
    /\ phase = "adopt"
    /\ outcome \in Outcomes(ffi_type_clone(Start(mem), share.s, "abort").st.ub)
    /\ LET c == IF share.cloned THEN ffi_type_clone(Start(mem), share.s, outcome)
                ELSE [st |-> Start(mem), val |-> share.s]
           t == Construct(c.st, attrs, <<c.val>>)
       IN  /\ mem' = t.st.mem
           /\ last' = Log("adopt", share.s, t.val, t.st, mem, clones)
           /\ freed' = Freed(freed, t.st)
           /\ crashed' = t.st.halt
           /\ share' = [share EXCEPT !.trees = Append(@, t.val)]
    /\ phase' = IF Len(share.trees) = 1 THEN "release" ELSE "adopt"
    /\ UNCHANGED <<clones, closureVars>>

\* what the caller has to destroy: the trees, and s when the trees hold copies
Owned == Range(share.trees) \cup (IF share.cloned THEN {share.s} ELSE {})

Release(x, outcome) ==
    /\ ~crashed
    /\ phase = "release"
    /\ x \in Owned \ share.released
    /\ outcome \in Outcomes(ffi_type_destroy(Start(mem), x, "abort").ub)
    /\ LET st == ffi_type_destroy(Start(mem), x, outcome)
       IN  /\ mem' = st.mem
           /\ last' = Log("destroy", x, NULL, st, mem, clones)
           /\ freed' = Freed(freed, st)
           /\ crashed' = st.halt
           /\ share' = [share EXCEPT !.released = @ \cup {x},
                                     !.how = IF st.ub = {} THEN @ ELSE outcome]
    /\ UNCHANGED <<phase, clones, closureVars>>

InitShare ==
    /\ mem = StaticMem
    /\ last = Log("init", NULL, NULL, Start(StaticMem), StaticMem, {})
    /\ clones = {}
    /\ freed = [a \in Heap |-> 0]
    /\ phase = "plant"
    /\ crashed = FALSE
    /\ \E b \in BOOLEAN : share = [NoShare EXCEPT !.cloned = b]
    /\ ClosureInit

NextShare ==
    \/ \E attrs \in ScalarAttrs, kids \in AtomSeqs : Plant(attrs, kids)
    \/ \E attrs \in ScalarAttrs, outcome \in UBOutcomes : Adopt(attrs, outcome)
    \/ \E x \in Heap, outcome \in UBOutcomes : Release(x, outcome)

SpecShare == InitShare /\ [][NextShare]_vars

\* ------------------------------------------------------ the closure program
InitClosure ==
    /\ HeapInit
    /\ ClosureIdle
    /\ env \in [CtxVars -> Contexts]
    /\ pc = "prep_cif"

NextClosure ==
    \/ PrepCif
    \/ ClosureAlloc
    \/ \E ctx \in CtxVars : PrepClosureLoc(ctx)
    \/ \E x \in IntArgs, outcome \in OverflowOutcomes : Call(x, outcome)

SpecClosure == InitClosure /\ [][NextClosure]_vars

\* ------------------------------------------------------------ properties
RECURSIVE SameShape(_, _, _, _)

\* p1 in memory m1 and p2 in memory m2 are the same descriptor: the same
\* atomic singleton, or aggregates with equal scalar attributes and pairwise
\* equal children in the same order
SameShape(m1, p1, m2, p2) ==
    IF p1 \in Atomics \/ p2 \in Atomics THEN p1 = p2
    ELSE /\ IsAggregate(m1, p1) /\ IsAggregate(m2, p2)
         /\ m1[p1].size = m2[p2].size
         /\ m1[p1].alignment = m2[p2].alignment
         /\ m1[p1].type = m2[p2].type
         /\ IsArray(m1, m1[p1].elements) /\ IsArray(m2, m2[p2].elements)
         /\ LET s1 == m1[m1[p1].elements].slots
                s2 == m2[m2[p2].elements].slots
            IN  /\ Len(s1) = Len(s2)
                /\ \A k \in 1 .. Len(s1) :
                      IF s1[k] = NULL \/ s2[k] = NULL THEN s1[k] = s2[k]
                      ELSE SameShape(m1, s1[k], m2, s2[k])

\* a sentinel-terminated array of valid descriptor references
ArrayOK(m, a) ==
    /\ IsArray(m, a)
    /\ Len(m[a].slots) >= 1
    /\ m[a].slots[Len(m[a].slots)] = NULL
    /\ \A k \in 1 .. Len(m[a].slots) - 1 : WellFormed(m, m[a].slots[k])
AggregateNodes(m, p) == {b \in Blocks(m, p) : m[b].kind = "node"}
Untouched(S) == \A b \in S : mem[b] = last.pre[b]
Returned == ~crashed /\ last.ub = {}

\* C1: a copy made by ffi_type_clone of a well-formed aggregate tree owns no
\* heap block of its source; destroying the copy frees no block of the source
\* and leaves the source as it was, and destroying the source frees no block
\* of the copy, which stays a well-formed tree with its contents unchanged
CloneIsIndependent ==
    /\ (last.op = "clone" /\ Tree(last.pre, last.arg) /\ ~crashed) =>
          /\ Blocks(mem, last.ret) \cap Blocks(mem, last.arg) = {}
          /\ Blocks(mem, last.ret) \cap LiveSet(last.pre) = {}
    /\ \A pr \in last.pairs : \A me \in {1, 2} :
          LET other == 3 - me
          IN  (/\ last.op = "destroy" /\ last.arg = pr[me]
               /\ Tree(last.pre, pr[1]) /\ Tree(last.pre, pr[2])) =>
                 /\ Returned
                 /\ Range(last.frees) \cap Blocks(last.pre, pr[other]) = {}
                 /\ Untouched(Blocks(last.pre, pr[other]))
                 /\ Tree(mem, pr[other])
                 /\ SameShape(last.pre, pr[other], mem, pr[other])
\* the source, a tree with a nested aggregate, was destroyed and its copy lives
CloneIsIndependentWitness ==
    /\ last.op = "destroy"
    /\ \E pr \in last.pairs :
          /\ last.arg = pr[1]
          /\ Cardinality(Blocks(last.pre, pr[1])) = 4
          /\ Tree(mem, pr[2])
          /\ Cardinality(Blocks(mem, pr[2])) = 4

\* C2: ffi_type_clone of an atomic descriptor returns the same reference and
\* allocates nothing, ffi_type_destroy of one frees nothing and changes
\* nothing, and no call ever frees, allocates or changes an atomic singleton,
\* also when it is a leaf of the tree being cloned or destroyed
AtomicsAreSingletons ==
    /\ \A a \in Atomics :
          /\ mem[a] = StaticMem[a]
          /\ a \notin Range(last.frees) \cup Range(last.allocs)
    /\ (last.op = "clone" /\ last.arg \in Atomics) =>
          /\ last.ret = last.arg /\ last.allocs = <<>> /\ mem = last.pre
          /\ Returned
    /\ (last.op = "destroy" /\ last.arg \in Atomics) =>
          /\ last.frees = <<>> /\ mem = last.pre
          /\ Returned
    /\ (last.op = "clone" /\ Tree(last.pre, last.arg) /\ ~crashed) =>
          \A k \in 1 .. Len(Children(last.pre, last.arg)) :
             Children(last.pre, last.arg)[k] \in Atomics =>
                Children(mem, last.ret)[k] = Children(last.pre, last.arg)[k]
\* a tree with an atomic leaf was destroyed
AtomicsAreSingletonsWitness ==
    /\ last.op = "destroy"
    /\ Tree(last.pre, last.arg)
    /\ ffi_type_sint \in Range(Children(last.pre, last.arg))
    /\ last.frees # <<>>

\* C3: one ffi_type_destroy of a well-formed aggregate tree in which no block
\* is reached twice frees every node and every array of the tree exactly
\* once, frees and changes nothing else, and makes no undefined access (no
\* read of a freed block)
DestroyFreesTreeOnce ==
    (last.op = "destroy" /\ Tree(last.pre, last.arg)) =>
        /\ Returned
        /\ NoDup(last.frees)
        /\ Range(last.frees) = Blocks(last.pre, last.arg)
        /\ \A b \in Blocks(last.pre, last.arg) : ~mem[b].live
        /\ Untouched(Heap \ Blocks(last.pre, last.arg))
\* a tree with a nested aggregate was destroyed while another tree was live
DestroyFreesTreeOnceWitness ==
    /\ last.op = "destroy"
    /\ Tree(last.pre, last.arg)
    /\ Len(last.frees) = 4
    /\ LiveSet(mem) # {}

\* C4: ffi_type_clone_array of a sentinel-terminated array with n elements
\* returns a newly allocated array of n + 1 slots; slot n is the sentinel, no
\* earlier slot is NULL, and slot i is what ffi_type_clone makes of the
\* source's slot i: the same atomic singleton, or a new copy of the aggregate
CloneArrayCopiesSlots ==
    (last.op = "clone_array" /\ ArrayOK(last.pre, last.arg) /\ ~crashed) =>
        LET n == Length(last.pre, last.arg)
            src == last.pre[last.arg].slots
        IN  /\ last.ub = {}
            /\ last.ret \in Heap /\ ~last.pre[last.ret].live
            /\ IsArray(mem, last.ret)
            /\ Len(mem[last.ret].slots) = n + 1
            /\ mem[last.ret].slots[n + 1] = NULL
            /\ \A k \in 1 .. n :
                  LET c == mem[last.ret].slots[k]
                  IN  /\ c # NULL
                      /\ SameShape(last.pre, src[k], mem, c)
                      /\ src[k] \in Heap =>
                            (c \in Heap /\ ~last.pre[c].live /\ Tree(mem, c))
\* an array of two elements, an aggregate among them, was cloned
CloneArrayCopiesSlotsWitness ==
    /\ last.op = "clone_array"
    /\ ~crashed
    /\ Length(last.pre, last.arg) >= 2
    /\ \E k \in 1 .. Length(last.pre, last.arg) : last.pre[last.arg].slots[k] \in Heap

\* C5: ffi_type_clone of a well-formed aggregate tree returns a tree equal to
\* it at every depth (scalar attributes, number and order of children, the
\* identical atomic leaves) that is made of newly allocated nodes and arrays
\* only
CloneIsDeepCopy ==
    (last.op = "clone" /\ Tree(last.pre, last.arg) /\ ~crashed) =>
        /\ last.ub = {}
        /\ SameShape(last.pre, last.arg, mem, last.ret)
        /\ Tree(mem, last.ret)
        /\ Blocks(mem, last.ret) \cap Blocks(last.pre, last.arg) = {}
        /\ Untouched(LiveSet(last.pre))
\* a tree whose root and nested aggregate differ in their attributes, with
\* an atomic leaf beside the nested aggregate, was cloned
CloneIsDeepCopyWitness ==
    /\ last.op = "clone"
    /\ ~crashed
    /\ Tree(last.pre, last.arg)
    /\ Len(Children(mem, last.ret)) = 2
    /\ \E k \in 1 .. 2 :
          /\ Children(mem, last.ret)[k] \in Heap
          /\ mem[Children(mem, last.ret)[k]].type # mem[last.ret].type
          /\ Children(mem, last.ret)[3 - k] = ffi_type_sint

\* C8: on a sentinel-terminated array with n elements ffi_type_destroy_array
\* and ffi_type_clone_array read exactly the slots 0 .. n of it, and of any
\* array below it never a slot after the sentinel; on an array of length 0
\* destroy-array frees the array alone and clone-array returns one slot
\* holding the sentinel
ArrayReadsStopAtSentinel ==
    (last.op \in {"destroy_array", "clone_array"} /\ ArrayOK(last.pre, last.arg)) =>
        LET n == Length(last.pre, last.arg)
        IN  /\ last.ub = {}
            /\ {rd[2] : rd \in {x \in last.reads : x[1] = last.arg}} = 0 .. n
            /\ \A rd \in last.reads :
                  IsArray(last.pre, rd[1]) /\ rd[2] <= Length(last.pre, rd[1])
            /\ (n = 0 /\ last.op = "destroy_array") => last.frees = <<last.arg>>
            /\ (n = 0 /\ last.op = "clone_array" /\ ~crashed) =>
                  /\ mem[last.ret].slots = <<NULL>>
                  /\ last.allocs = <<last.ret>>
\* a copy of an array of length 0 was destroyed
ArrayReadsStopAtSentinelWitness ==
    /\ last.op = "destroy_array"
    /\ ArrayOK(last.pre, last.arg)
    /\ Length(last.pre, last.arg) = 0
    /\ last.frees = <<last.arg>>

AllReleased == share.released = Owned /\ Len(share.trees) = 2
EverAllocated == {b \in Heap : mem[b].kind # "unused"}

\* the first half of C9: with a copy of s in each tree, whatever the order of
\* the destroys, no call reads or frees a freed block, no block is freed
\* twice, and when the two trees and s are destroyed every block has been
\* freed exactly once
ClonedTreesFreeOnce ==
    share.cloned =>
        /\ ~crashed
        /\ last.ub = {}
        /\ \A b \in Heap : freed[b] <= 1
        /\ \A x \in share.released : \A b \in Blocks(last.pre, x) : ~mem[b].live
        /\ AllReleased =>
              /\ LiveSet(mem) = {}
              /\ Cardinality(EverAllocated) = 10
              /\ \A b \in EverAllocated : freed[b] = 1

\* C9 as stated: with a copy of s in each tree every block is freed exactly
\* once and no freed block is read; with s itself in both trees, destroying
\* both trees frees the node s and its element array twice
SharedNodeFreedTwice ==
    /\ ClonedTreesFreeOnce
    /\ (~share.cloned /\ AllReleased) =>
          /\ freed[share.s] = 2
          /\ freed[mem[share.s].elements] = 2

\* C9, amended: with a copy of s in each tree every block is freed exactly
\* once and no freed block is read; with s itself in both trees, the destroy
\* of the first tree frees s and its array, and the destroy of the second
\* tree reads the freed node s, which is undefined: s and its array are
\* passed to free a second time if the freed blocks read back what they
\* held, they are not if the read yields something else, and the process may
\* stop at the read
SharedNodeReadAfterFree ==
    /\ ClonedTreesFreeOnce
    /\ (~share.cloned /\ Cardinality(share.released) = 1) =>
          /\ ~crashed /\ last.ub = {}
          /\ freed[share.s] = 1
          /\ freed[mem[share.s].elements] = 1
    /\ (~share.cloned /\ AllReleased) =>
          /\ <<"read", share.s>> \in last.ub
          /\ share.how \in UBOutcomes
          /\ share.how = "stale" =>
                /\ freed[share.s] = 2
                /\ freed[mem[share.s].elements] = 2
                /\ <<"free", share.s>> \in last.ub
                /\ \A t \in Range(share.trees) : freed[t] = 1
          /\ share.how = "clobbered" =>
                /\ freed[share.s] = 1
                /\ freed[mem[share.s].elements] = 1
                /\ \A t \in Range(share.trees) : freed[t] = 1
          /\ share.how = "abort" =>
                /\ crashed
                /\ freed[share.s] = 1
                /\ freed[last.arg] = 0
\* s was in both trees, both were destroyed, and s and its array went to
\* free twice
SharedNodeReadAfterFreeWitness ==
    /\ ~share.cloned
    /\ AllReleased
    /\ share.how = "stale"
    /\ freed[share.s] = 2
    /\ freed[mem[share.s].elements] = 2
\* what the callback is given and leaves behind in every call made so far
CallsUseBinding ==
    \A k \in 1 .. Len(calls) :
        /\ Len(binds) >= 1 /\ calls[k].nbinds >= 1
        /\ calls[k].fun = "callback"
        /\ calls[k].userdata = binds[1].user_data
        /\ Len(calls[k].args) = cif.nargs
        /\ Len(cif.arg_types) = cif.nargs
        /\ calls[k].args = <<calls[k].arg>>
        /\ calls[k].envAfter = calls[k].env
        /\ env = calls[k].env
        /\ closure = calls[k].closure
\* the values printed are the values returned, in the order of the calls
Printed ==
    out = [k \in 1 .. Len(out) |-> calls[k].ret]
    /\ Len(out) = Cardinality({k \in 1 .. Len(calls) : ~calls[k].trap})
    /\ \A k \in 1 .. Len(calls) : calls[k].trap => k = Len(calls)

DoubleBindRejected ==
    /\ closure.state = "bound" <=> Len(binds) >= 1
    /\ \A k \in 1 .. Len(binds) :
          IF k = 1
          THEN /\ binds[k].before.state = "unbound"
               /\ binds[k].status = FFI_OK
               /\ binds[k].after = [state |-> "bound", cif |-> cif,
                                    fun |-> "callback",
                                    user_data |-> binds[k].user_data]
          ELSE /\ binds[k].before.state = "bound"
               /\ binds[k].status = DOUBLE_BIND
               /\ binds[k].after = binds[1].after
    /\ Len(binds) >= 1 => closure = binds[1].after
    /\ \A k \in 1 .. Len(calls) :
          /\ calls[k].fun = binds[1].after.fun
          /\ calls[k].userdata = binds[1].user_data
          /\ ~calls[k].trap =>
                calls[k].ret = callback(env, <<calls[k].arg>>, binds[1].user_data, "wrap").result
\* a second bind with another context was rejected, and a later call
\* returned the sum with the first context
DoubleBindRejectedWitness ==
    /\ Len(binds) = 2
    /\ binds[2].status = DOUBLE_BIND
    /\ binds[2].user_data = "other"
    /\ env["other"] # env["env"]
    /\ \E k \in 1 .. Len(calls) :
          /\ calls[k].nbinds = 2
          /\ calls[k].arg = 6
          /\ calls[k].ret = env["env"] + 6

====
